---- MODULE Spec2Model ----
(***************************************************************************)
(* Model of the key issuance handler (apps/api/pkg/server/key_create.go),  *)
(* the persisted-record translator (apps/api/pkg/database/conversion.go)   *)
(* and the storage contract (apps/api/pkg/database/interface.go).          *)
(*                                                                         *)
(* A run of the handler is a sequence of steps, one up to each storage     *)
(* gateway call it waits on; runs of different requests and the clock      *)
(* interleave between the steps.                                           *)
(*                                                                         *)
(* Strings that are sliced or measured (prefix, plaintext key, start) are  *)
(* sequences of one-character strings; identifiers are TLA+ strings.       *)
(* time.Time is an integer of milliseconds, 0 being the zero time.         *)
(***************************************************************************)
EXTENDS Integers, Sequences, FiniteSets, TLC

VARIABLES keys, now, nextId, kafka, req, resp, events, handled, answered,
          inflight, cvEntity, cvModel, cvDecoded, cvPc,
          callers, quota

vars == <<keys, now, nextId, kafka, req, resp, events, handled, answered,
          inflight, cvEntity, cvModel, cvDecoded, cvPc, callers, quota>>

issueVars == <<keys, now, nextId, kafka, req, resp, events, handled, answered,
              inflight>>
convVars == <<cvEntity, cvModel, cvDecoded, cvPc>>
quotaVars == <<callers, quota>>

(***************************************************************************)
(* Entities                                                                *)
(***************************************************************************)

\* A nil *entities.Ratelimit.
NoRatelimit == [present |-> FALSE, Type |-> "", Limit |-> 0, RefillRate |-> 0, RefillInterval |-> 0]

\* The zero value of the Remaining struct of entities.Key.
NoRemaining == [Enabled |-> FALSE, Remaining |-> 0]

\* map[string]any values: a nil map, or a map given by its set of entries,
\* each entry a pair <<name, value>>, the value a string or a nested map.
NilMeta == [kind |-> "nil", str |-> "", entries |-> {}]
MapMeta(es) == [kind |-> "map", str |-> "", entries |-> es]
StrMeta(s) == [kind |-> "string", str |-> s, entries |-> {}]

\* The zero value entities.Key{}.
ZeroKey ==
  [Id |-> "", KeyAuthId |-> "", WorkspaceId |-> "", Hash |-> <<>>, Start |-> <<>>,
   CreatedAt |-> 0, OwnerId |-> "", Name |-> "", Expires |-> 0,
   ForWorkspaceId |-> "", Meta |-> NilMeta, Ratelimit |-> NoRatelimit,
   Remaining |-> NoRemaining]

(***************************************************************************)
(* encoding/json on the meta map.  The text is kept as its syntax tree:    *)
(* the literal null, a quoted string, or an object with its members.       *)
(***************************************************************************)
RECURSIVE jsonMarshal(_)
jsonMarshal(v) ==
  CASE v.kind = "nil" -> [json |-> "null", text |-> "", members |-> {}]
    [] v.kind = "string" -> [json |-> "string", text |-> v.str, members |-> {}]
    [] OTHER -> [json |-> "object", text |-> "",
                 members |-> {<<e[1], jsonMarshal(e[2])>> : e \in v.entries}]

\* json.Unmarshal(text, &target): null leaves the target as it is; an object
\* is decoded into a fresh non-nil map; anything else cannot be stored in a
\* map[string]any and is an error.
RECURSIVE jsonDecodeValue(_)
jsonDecodeValue(j) ==
  CASE j.json = "null" -> NilMeta
    [] j.json = "string" -> StrMeta(j.text)
    [] OTHER -> MapMeta({<<m[1], jsonDecodeValue(m[2])>> : m \in j.members})

jsonUnmarshal(j, target) ==
  CASE j.json = "null" -> [err |-> FALSE, val |-> target]
    [] j.json = "object" -> [err |-> FALSE, val |-> jsonDecodeValue(j)]
    [] OTHER -> [err |-> TRUE, val |-> target]

(***************************************************************************)
(* Persisted record (models.Key) and the translator                        *)
(***************************************************************************)
NullString(s, valid) == [String |-> s, Valid |-> valid]
NullInt64(i, valid) == [Int64 |-> i, Valid |-> valid]
NullTime(t, valid) == [Time |-> t, Valid |-> valid]
NullMeta(j, valid) == [String |-> j, Valid |-> valid]

\* len(metaBuf) > 0: the marshalled text of any value has at least two bytes.
metaBufNonEmpty(j) == j.json \in {"null", "string", "object"}

keyEntityToModel(e) ==
  [ID |-> e.Id,
   KeyAuthID |-> NullString(e.KeyAuthId, e.KeyAuthId # ""),
   Start |-> e.Start,
   WorkspaceID |-> e.WorkspaceId,
   Hash |-> e.Hash,
   OwnerID |-> NullString(e.OwnerId, e.OwnerId # ""),
   Name |-> NullString(e.Name, e.Name # ""),
   Meta |-> NullMeta(jsonMarshal(e.Meta), metaBufNonEmpty(jsonMarshal(e.Meta))),
   CreatedAt |-> e.CreatedAt,
   Expires |-> NullTime(e.Expires, e.Expires # 0),
   ForWorkspaceID |-> NullString(e.ForWorkspaceId, e.ForWorkspaceId # ""),
   RatelimitType |->
     IF e.Ratelimit.present
       THEN NullString(e.Ratelimit.Type, e.Ratelimit.Type # "")
       ELSE NullString("", FALSE),
   RatelimitLimit |->
     IF e.Ratelimit.present
       THEN NullInt64(e.Ratelimit.Limit, e.Ratelimit.Limit > 0)
       ELSE NullInt64(0, FALSE),
   RatelimitRefillRate |->
     IF e.Ratelimit.present
       THEN NullInt64(e.Ratelimit.RefillRate, e.Ratelimit.RefillRate > 0)
       ELSE NullInt64(0, FALSE),
   RatelimitRefillInterval |->
     IF e.Ratelimit.present
       THEN NullInt64(e.Ratelimit.RefillInterval, e.Ratelimit.RefillRate > 0)
       ELSE NullInt64(0, FALSE),
   RemainingRequests |->
     IF e.Remaining.Enabled
       THEN NullInt64(e.Remaining.Remaining, TRUE)
       ELSE NullInt64(0, FALSE)]

\* Returns [err, key]; on a meta decoding error the key is entities.Key{}.
keyModelToEntity(model) ==
  LET meta == IF model.Meta.Valid
                THEN jsonUnmarshal(model.Meta.String, NilMeta)
                ELSE [err |-> FALSE, val |-> NilMeta]
      key ==
        [Id |-> model.ID,
         KeyAuthId |-> IF model.KeyAuthID.Valid THEN model.KeyAuthID.String ELSE "",
         WorkspaceId |-> model.WorkspaceID,
         Hash |-> model.Hash,
         Start |-> model.Start,
         CreatedAt |-> model.CreatedAt,
         OwnerId |-> IF model.OwnerID.Valid THEN model.OwnerID.String ELSE "",
         Name |-> IF model.Name.Valid THEN model.Name.String ELSE "",
         Expires |-> IF model.Expires.Valid THEN model.Expires.Time ELSE 0,
         ForWorkspaceId |->
           IF model.ForWorkspaceID.Valid THEN model.ForWorkspaceID.String ELSE "",
         Meta |-> meta.val,
         Ratelimit |->
           IF model.RatelimitType.Valid
             THEN [present |-> TRUE,
                   Type |-> model.RatelimitType.String,
                   Limit |-> model.RatelimitLimit.Int64,
                   RefillRate |-> model.RatelimitRefillRate.Int64,
                   RefillInterval |-> model.RatelimitRefillInterval.Int64]
             ELSE NoRatelimit,
         Remaining |->
           IF model.RemainingRequests.Valid
             THEN [Enabled |-> TRUE, Remaining |-> model.RemainingRequests.Int64]
             ELSE NoRemaining]
  IN IF meta.err THEN [err |-> TRUE, key |-> ZeroKey]
                 ELSE [err |-> FALSE, key |-> key]

(***************************************************************************)
(* Bounds of the model                                                     *)
(***************************************************************************)
\* Clock values: the clock runs from 1 to MaxTime.
MaxTime == 2
\* Issuance requests received in one behaviour; those received and not yet
\* answered run concurrently.
MaxRequests == 1
\* A requested secret length small enough for the encoded secret to be
\* as short as the display prefix.
SmallByteLength == 3
\* Concurrent callers of DecrementRemainingKeyUsage.
NumCallers == 4

\* CreateKeyRequest{ByteLength: 16}: the default secret length.
DefaultByteLength == 16

(***************************************************************************)
(* Key material and digest (packages keys and hash)                        *)
(***************************************************************************)
\* n copies of the character c.
Repeat(c, n) == [i \in 1..n |-> c]

\* Length of the base encoding of n random bytes: at least one character
\* per byte, at most 11 characters for 8 bytes, rounded up.
MaxEncLen(n) == (n * 11 + 7) \div 8
\* The lengths sampled: the shortest, the longest, and every length up to
\* one more than the 4 characters of the secret that the display prefix
\* takes.
EncLens(n) == {l \in n..MaxEncLen(n) : l = n \/ l = MaxEncLen(n) \/ l <= 5}

\* The secrets the random source can yield for a requested byte length
\* (a sample: one secret of each sampled length).
Secrets(n) == {Repeat("a", l) : l \in EncLens(n)}

\* keys.NewV1Key: prefix, delimiter, encoded secret.
NewV1Key(prefix, secret) == prefix \o <<"_">> \o secret

\* hash.Sha256: deterministic, and distinct inputs give distinct digests.
Sha256(plaintext) == <<"sha256">> \o plaintext

\* getKeyHash: the digest of the presented credential, or an error when the
\* authorization header carries none.  The error is the caller's to handle.
getKeyHash(header) ==
  IF header = <<>> THEN [err |-> TRUE, hash |-> <<>>]
                   ELSE [err |-> FALSE, hash |-> Sha256(header)]

\* uid.Key(): a fresh identifier.
uidKey(n) == "key_" \o ToString(n)

(***************************************************************************)
(* Storage gateway                                                         *)
(***************************************************************************)
\* entities.Api records held by the store.  The interface has no method
\* that changes or removes an Api and a run reads the Apis once, in GetApi:
\* what CreateApi adds while the service runs is an id that one run finds
\* and an earlier one did not, as with the ids below that exist and the one
\* that does not.
Apis ==
  { [Id |-> "api_1", WorkspaceId |-> "ws_1", AuthType |-> "key", KeyAuthId |-> "ka_1"],
    [Id |-> "api_2", WorkspaceId |-> "ws_2", AuthType |-> "key", KeyAuthId |-> "ka_2"],
    [Id |-> "api_3", WorkspaceId |-> "ws_1", AuthType |-> "jwt", KeyAuthId |-> ""],
    [Id |-> "api_4", WorkspaceId |-> "ws_1", AuthType |-> "key", KeyAuthId |-> ""] }

\* entities.KeyAuth records held by the store.
KeyAuths ==
  { [Id |-> "ka_0", WorkspaceId |-> "ws_0"],
    [Id |-> "ka_1", WorkspaceId |-> "ws_1"],
    [Id |-> "ka_2", WorkspaceId |-> "ws_2"] }

NoApi == [Id |-> "", WorkspaceId |-> "", AuthType |-> "", KeyAuthId |-> ""]

\* GetApi: the Api, database.ErrNotFound, or another storage error.
GetApi(apiId, fails) ==
  IF fails THEN [err |-> "internal", api |-> NoApi]
  ELSE IF \E a \in Apis : a.Id = apiId
    THEN [err |-> "", api |-> CHOOSE a \in Apis : a.Id = apiId]
    ELSE [err |-> "notfound", api |-> NoApi]

\* A row as the store holds it: a NULL column carries no value.
dbRow(m) ==
  LET str(c) == IF c.Valid THEN c ELSE NullString("", FALSE)
      int(c) == IF c.Valid THEN c ELSE NullInt64(0, FALSE)
  IN [m EXCEPT !.KeyAuthID = str(@), !.OwnerID = str(@), !.Name = str(@),
               !.ForWorkspaceID = str(@),
               !.Expires = IF @.Valid THEN @ ELSE NullTime(0, FALSE),
               !.RatelimitType = str(@), !.RatelimitLimit = int(@),
               !.RatelimitRefillRate = int(@),
               !.RatelimitRefillInterval = int(@),
               !.RemainingRequests = int(@)]

\* GetKeyByHash: hash is unique, the row is translated back to an entity.
GetKeyByHash(rows, hash, fails) ==
  IF fails THEN [err |-> "internal", key |-> ZeroKey]
  ELSE IF \E r \in rows : r.Hash = hash
    THEN LET e == keyModelToEntity(CHOOSE r \in rows : r.Hash = hash)
         IN [err |-> IF e.err THEN "internal" ELSE "", key |-> e.key]
    ELSE [err |-> "notfound", key |-> ZeroKey]

\* CreateKey: inserts the translated row; id and hash are unique.
CreateKey(rows, newKey, fails) ==
  IF fails \/ \E r \in rows : r.ID = newKey.Id \/ r.Hash = newKey.Hash
    THEN [err |-> TRUE, rows |-> rows]
    ELSE [err |-> FALSE, rows |-> rows \cup {dbRow(keyEntityToModel(newKey))}]

\* UpdateKey: rewrites the row of the key's id with the translated entity.
UpdateKey(rows, key, fails) ==
  IF fails THEN [err |-> "internal", rows |-> rows]
  ELSE IF \E r \in rows : r.ID = key.Id
    THEN [err |-> "",
          rows |-> {r \in rows : r.ID # key.Id} \cup {dbRow(keyEntityToModel(key))}]
    ELSE [err |-> "notfound", rows |-> rows]

\* DeleteKey: removes the row of the id.
DeleteKey(rows, keyId, fails) ==
  IF fails THEN [err |-> "internal", rows |-> rows]
  ELSE IF \E r \in rows : r.ID = keyId
    THEN [err |-> "", rows |-> {r \in rows : r.ID # keyId}]
    ELSE [err |-> "notfound", rows |-> rows]

\* GetKeyById: the entity of the row of the id.
GetKeyById(rows, keyId) ==
  IF \E r \in rows : r.ID = keyId
    THEN LET e == keyModelToEntity(CHOOSE r \in rows : r.ID = keyId)
         IN [err |-> IF e.err THEN "internal" ELSE "", key |-> e.key]
    ELSE [err |-> "notfound", key |-> ZeroKey]

\* Plaintext credentials of the keys that exist before any issuance.
RootPlain == <<"r", "_", "1">>
UserPlain == <<"u", "_", "1">>
BogusPlain == <<"x", "_", "0">>

\* A root key of the platform workspace ws_0 that may issue for ws_1, and
\* an ordinary key of ws_1.
InitialKeys ==
  { [ZeroKey EXCEPT !.Id = "key_root1", !.KeyAuthId = "ka_0", !.WorkspaceId = "ws_0",
       !.Hash = Sha256(RootPlain), !.Start = SubSeq(RootPlain, 1, 2),
       !.ForWorkspaceId = "ws_1", !.Name = "root"],
    [ZeroKey EXCEPT !.Id = "key_user", !.KeyAuthId = "ka_1", !.WorkspaceId = "ws_1",
       !.Hash = Sha256(UserPlain), !.Start = SubSeq(UserPlain, 1, 2),
       !.Remaining = [Enabled |-> TRUE, Remaining |-> 1]] }

InitialRows == {dbRow(keyEntityToModel(k)) : k \in InitialKeys}

(***************************************************************************)
(* Server.createKey                                                        *)
(***************************************************************************)
BAD_REQUEST == "BAD_REQUEST"
UNAUTHORIZED == "UNAUTHORIZED"
INTERNAL_SERVER_ERROR == "INTERNAL_SERVER_ERROR"

\* c.Status(status).JSON(ErrorResponse{Code, Error}); of the error text only
\* the fixed part is kept.
ErrorResponse(status, code, error) ==
  [status |-> status, code |-> code, error |-> error, key |-> <<>>, keyId |-> ""]

\* c.JSON(CreateKeyResponse{Key, KeyId}), status 200.
CreateKeyResponse(key, keyId) ==
  [status |-> 200, code |-> "", error |-> "", key |-> key, keyId |-> keyId]

\* keyValue[:startLength] with startLength beyond the string: the handler
\* panics and writes no response.
Panicked == [status |-> 0, code |-> "PANIC", error |-> "", key |-> <<>>, keyId |-> ""]

\* return err: the handler hands the error of getKeyHash to the framework
\* and writes neither a status nor an ErrorResponse; what the caller then
\* receives is decided outside the handler.
ReturnedError ==
  [status |-> 0, code |-> "RETURNED", error |-> "", key |-> <<>>, keyId |-> ""]

\* What is recorded of a run besides the response: the protocol step that
\* ended it (0 for success), the storage gateway calls made, the clock value
\* read for the expiry check (the first time.Now()) and the collaborator
\* call that failed, if any, and the entity GetKeyByHash gave the run (the
\* zero entity when it gave none).
Outcome(response, step, calls, t, failed, authKey) ==
  [status |-> response.status, code |-> response.code, error |-> response.error,
   key |-> response.key, keyId |-> response.keyId,
   step |-> step, calls |-> calls, at |-> t, failed |-> failed,
   authKey |-> authKey]

NoResponse ==
  Outcome([status |-> 0, code |-> "", error |-> "", key |-> <<>>, keyId |-> ""],
          0, <<>>, 0, "none", ZeroKey)

\* The expiry check at clock value t.
expiresRejected(expires, t) == expires > 0 /\ expires < t

\* The response to an error of GetKeyByHash.
keyLookupError(err) ==
  IF err = "notfound"
    THEN ErrorResponse(401, UNAUTHORIZED, "unauthorized")
    ELSE ErrorResponse(500, INTERNAL_SERVER_ERROR, "unable to find key")

\* A root-key check that looks at the key's own workspace.
isRootKeyByOwnWorkspace(authKey) == authKey.WorkspaceId # ""

\* The root-key check.
isRootKey(authKey) == authKey.ForWorkspaceId # ""

\* The response to an error of GetApi.
apiLookupError(err) ==
  IF err = "notfound"
    THEN ErrorResponse(400, BAD_REQUEST, "wrong apiId")
    ELSE ErrorResponse(500, INTERNAL_SERVER_ERROR, "unable to find api")

\* A workspace-scope check that only asks for the Api to have a workspace.
workspaceAllowedAny(api, authKey) == api.WorkspaceId # ""

\* The workspace-scope check.
workspaceAllowed(api, authKey) == api.WorkspaceId = authKey.ForWorkspaceId

\* The Api configuration check.
handlesKeyAuth(api) == ~(api.AuthType # "key" \/ api.KeyAuthId = "")

\* How many characters to store: the prefix, the delimiter and the first 4
\* characters of the key.
startLength(prefix) == Len(prefix) + 5

\* An assembly that puts the new key into the root key's own workspace.
newKeyInOwnWorkspace(r, api, authKey, id, keyValue, createdAt) ==
  [Id |-> id, KeyAuthId |-> api.KeyAuthId, WorkspaceId |-> authKey.WorkspaceId,
   Hash |-> Sha256(keyValue), Start |-> SubSeq(keyValue, 1, startLength(r.prefix)),
   CreatedAt |-> createdAt, OwnerId |-> r.ownerId, Name |-> r.name,
   Expires |-> IF r.expires > 0 THEN r.expires ELSE 0, ForWorkspaceId |-> "",
   Meta |-> r.meta, Ratelimit |-> r.ratelimit,
   Remaining |-> IF r.remaining > 0
                   THEN [Enabled |-> TRUE, Remaining |-> r.remaining]
                   ELSE NoRemaining]

\* An assembly that copies forWorkspaceId from the request body.
newKeyWithRequestedRoot(r, api, authKey, id, keyValue, createdAt) ==
  [Id |-> id, KeyAuthId |-> api.KeyAuthId, WorkspaceId |-> authKey.ForWorkspaceId,
   Hash |-> Sha256(keyValue), Start |-> SubSeq(keyValue, 1, startLength(r.prefix)),
   CreatedAt |-> createdAt, OwnerId |-> r.ownerId, Name |-> r.name,
   Expires |-> IF r.expires > 0 THEN r.expires ELSE 0,
   ForWorkspaceId |-> r.forWorkspaceId,
   Meta |-> r.meta, Ratelimit |-> r.ratelimit,
   Remaining |-> IF r.remaining > 0
                   THEN [Enabled |-> TRUE, Remaining |-> r.remaining]
                   ELSE NoRemaining]

\* The entity assembled from the request, the resolved Api and the root key.
newKeyOf(r, api, authKey, id, keyValue, createdAt) ==
  [Id |-> id,
   KeyAuthId |-> api.KeyAuthId,
   WorkspaceId |-> authKey.ForWorkspaceId,
   Hash |-> Sha256(keyValue),
   Start |-> SubSeq(keyValue, 1, startLength(r.prefix)),
   CreatedAt |-> createdAt,
   OwnerId |-> r.ownerId,
   Name |-> r.name,
   Expires |-> IF r.expires > 0 THEN r.expires ELSE 0,
   ForWorkspaceId |-> "",
   Meta |-> r.meta,
   Ratelimit |-> r.ratelimit,
   Remaining |-> IF r.remaining > 0
                   THEN [Enabled |-> TRUE, Remaining |-> r.remaining]
                   ELSE NoRemaining]

\* Whether the event goroutine is started: only with a bus configured.
startsEvent(bus) == bus

\* The error text of a failed keys.NewV1Key, which the handler passes on
\* as the text of its response (err.Error()).
NewV1KeyError == "GenerationError"

\* The locals of a run of the handler that waits on a storage gateway call:
\* the call, the request, the clock value read for the expiry check, the
\* digest of the credential, and what the calls before have yielded.
Task(pc, r, t, authHash, authKey, api, keyValue, newKey) ==
  [pc |-> pc, req |-> r, at |-> t, authHash |-> authHash, authKey |-> authKey,
   api |-> api, keyValue |-> keyValue, newKey |-> newKey]

NoTask == [pc |-> "", req |-> <<>>, at |-> 0]

\* A run that has ended, with its outcome, and a run that goes on.
Ended(response, step, calls, t, failed, authKey) ==
  [done |-> TRUE, resp |-> Outcome(response, step, calls, t, failed, authKey),
   task |-> NoTask]
Waiting(task) == [done |-> FALSE, resp |-> NoResponse, task |-> task]

\* The handler from its entry to the call of GetKeyByHash: parsing,
\* validation, the expiry check at clock value t, the digest of the
\* credential.
createKeyStart(r, t) ==
  LET authHash == getKeyHash(r.auth) IN
  IF ~r.parses
    THEN Ended(ErrorResponse(400, BAD_REQUEST, "unable to parse body"),
               1, <<>>, t, "none", ZeroKey)
  ELSE IF r.apiId = ""
    THEN Ended(ErrorResponse(400, BAD_REQUEST, "unable to validate body"),
               1, <<>>, t, "none", ZeroKey)
  ELSE IF expiresRejected(r.expires, t)
    THEN Ended(ErrorResponse(400, BAD_REQUEST, "'expires' must be in the future"),
               1, <<>>, t, "none", ZeroKey)
  ELSE IF authHash.err THEN Ended(ReturnedError, 2, <<>>, t, "none", ZeroKey)
  ELSE Waiting(Task("GetKeyByHash", r, t, authHash.hash, ZeroKey, NoApi, <<>>,
                    ZeroKey))

\* From the return of GetKeyByHash, which reads the rows of that moment, to
\* the call of GetApi: the root-key check.
createKeyAuthenticate(task, rows, fails) ==
  LET auth == GetKeyByHash(rows, task.authHash, fails)
      failed == IF fails THEN "GetKeyByHash" ELSE "none"
      c1 == <<"GetKeyByHash">>
  IN
  IF auth.err # ""
    THEN Ended(keyLookupError(auth.err), 2, c1, task.at, failed, ZeroKey)
  ELSE IF ~isRootKey(auth.key)
    THEN Ended(ErrorResponse(400, BAD_REQUEST, "wrong key type"),
               3, c1, task.at, failed, auth.key)
  ELSE Waiting([task EXCEPT !.pc = "GetApi", !.authKey = auth.key])

\* From the return of GetApi to the call of CreateKey: the workspace-scope
\* and configuration checks, the generation of the key, and the assembly of
\* the entity, whose CreatedAt is the clock value t of this moment (the
\* second time.Now()).  env gives what the environment decides: whether
\* GetApi or NewV1Key fails and the secret the random source yields.
createKeyAuthorize(task, t, id, env) ==
  LET r == task.req
      got == GetApi(r.apiId, env.fail = "GetApi")
      api == got.api
      keyValue == NewV1Key(r.prefix, env.secret)
      c2 == <<"GetKeyByHash", "GetApi">>
      stop(response, step) ==
        Ended(response, step, c2, task.at, env.fail, task.authKey)
  IN
  IF got.err # "" THEN stop(apiLookupError(got.err), 4)
  ELSE IF ~workspaceAllowed(api, task.authKey)
    THEN stop(ErrorResponse(401, UNAUTHORIZED, "access to workspace denied"), 5)
  ELSE IF ~handlesKeyAuth(api)
    THEN stop(ErrorResponse(400, BAD_REQUEST, "api is not set up to handle key auth"),
              6)
  ELSE IF env.fail = "NewV1Key"
    THEN stop(ErrorResponse(500, INTERNAL_SERVER_ERROR, NewV1KeyError), 7)
  ELSE IF startLength(r.prefix) > Len(keyValue) THEN stop(Panicked, 8)
  ELSE Waiting([task EXCEPT !.pc = "CreateKey", !.api = api,
                            !.keyValue = keyValue,
                            !.newKey = newKeyOf(r, api, task.authKey, id,
                                                keyValue, t)])

\* From the return of CreateKey, which writes to the rows of that moment,
\* to the end: the start of the event goroutine and the response.  The
\* result carries the rows afterwards, whether a key was inserted and
\* whether the goroutine is started.
createKeyPersist(task, rows, bus, fails) ==
  LET stored == CreateKey(rows, task.newKey, fails)
      failed == IF fails THEN "CreateKey" ELSE "none"
      c3 == <<"GetKeyByHash", "GetApi", "CreateKey">>
  IN
  IF stored.err
    THEN [done |-> TRUE, rows |-> rows, created |-> FALSE, spawn |-> FALSE,
          resp |-> Outcome(ErrorResponse(500, INTERNAL_SERVER_ERROR,
                                         "unable to store key"),
                           9, c3, task.at, failed, task.authKey)]
    ELSE [done |-> TRUE, rows |-> stored.rows, created |-> TRUE,
          spawn |-> startsEvent(bus),
          resp |-> Outcome(CreateKeyResponse(task.keyValue, task.newKey.Id),
                           0, c3, task.at, failed, task.authKey)]

(***************************************************************************)
(* Requests and environment                                                *)
(***************************************************************************)
\* The optional fields of the body, all absent or all present.
PlainFields ==
  [forWorkspaceId |-> "", name |-> "", ownerId |-> "", meta |-> NilMeta,
   ratelimit |-> NoRatelimit, remaining |-> 0]
FullFields ==
  [forWorkspaceId |-> "ws_2", name |-> "n", ownerId |-> "o",
   meta |-> MapMeta({<<"a", StrMeta("x")>>, <<"m", MapMeta({})>>}),
   ratelimit |-> [present |-> TRUE, Type |-> "fast", Limit |-> 10,
                  RefillRate |-> 1, RefillInterval |-> 100],
   remaining |-> 2]

Request(parses, auth, apiId, prefix, byteLength, expires, f) ==
  [parses |-> parses, auth |-> auth, apiId |-> apiId, prefix |-> prefix,
   byteLength |-> byteLength, expires |-> expires,
   forWorkspaceId |-> f.forWorkspaceId, name |-> f.name, ownerId |-> f.ownerId,
   meta |-> f.meta, ratelimit |-> f.ratelimit, remaining |-> f.remaining]

\* A request of the root key for ws_1 on the key-auth Api of ws_1.
BaseRequest == Request(TRUE, RootPlain, "api_1", <<>>, DefaultByteLength, 0, PlainFields)

\* A body that is not JSON.
MalformedRequest == [BaseRequest EXCEPT !.parses = FALSE]

NoRequest == [BaseRequest EXCEPT !.parses = FALSE, !.auth = <<>>, !.apiId = ""]

\* issued: the plaintext of the last success response, which its receiver
\* may present as a credential.
AuthHeaders(issued) ==
  {UserPlain, RootPlain} \cup (IF issued = <<>> THEN {} ELSE {issued})
ApiIds == {"", "api_1", "api_2", "api_3", "api_4", "api_x"}
\* A prefix with the default secret length, and no prefix with the small one.
Shapes == {<<<<"p">>, DefaultByteLength>>, <<<<>>, SmallByteLength>>}
\* An expiry that the clock reaches at once, and one that it never reaches.
Expired == 1
Future == MaxTime + 1

\* The requests the model submits: every stored credential against every
\* Api id, no credential and an unknown one against an Api that exists and
\* one that does not, an ordinary and a root credential with all optional
\* fields set (the expiry in the future), every key shape, and an expiry
\* that is reached, with and without a credential.
AuthRequests(issued) ==
  { Request(TRUE, a, i, <<>>, DefaultByteLength, 0, PlainFields) :
      a \in AuthHeaders(issued), i \in ApiIds }
StrangerRequests ==
  { Request(TRUE, a, i, <<>>, DefaultByteLength, 0, PlainFields) :
      a \in {<<>>, BogusPlain}, i \in {"api_1", "api_x"} }
FieldRequests ==
  { Request(TRUE, a, "api_1", <<>>, DefaultByteLength, Future, FullFields) :
      a \in {UserPlain, RootPlain} }
ShapeRequests ==
  { Request(TRUE, RootPlain, "api_1", sh[1], sh[2], 0, PlainFields) : sh \in Shapes }
ExpiryRequests ==
  { Request(TRUE, a, "api_1", <<>>, DefaultByteLength, Expired, PlainFields) :
      a \in {<<>>, RootPlain} }

Requests(issued) ==
  {MalformedRequest} \cup AuthRequests(issued) \cup StrangerRequests
    \cup FieldRequests \cup ShapeRequests \cup ExpiryRequests

Env(fail, secret) == [fail |-> fail, secret |-> secret]

\* The environment's choices that the run of a task can observe between the
\* return of GetApi and the call of CreateKey: NewV1Key and the random
\* source matter only once the Api is accepted.
Environments(task) ==
  LET dry == createKeyAuthorize(task, 0, "", Env("none", Repeat("a", 5))) IN
  {Env("GetApi", <<>>)}
    \cup (IF dry.done
            THEN {Env("none", <<>>)}
            ELSE {Env("NewV1Key", <<>>)}
                   \cup {Env("none", s) : s \in Secrets(task.req.byteLength)})

(***************************************************************************)
(* Issuance: state, actions, specification                                 *)
(***************************************************************************)
IdleConv ==
  /\ cvEntity = ZeroKey
  /\ cvModel = keyEntityToModel(ZeroKey)
  /\ cvDecoded = [err |-> FALSE, key |-> ZeroKey]
  /\ cvPc = "idle"

IdleCallers == callers = <<>> /\ quota = 0

IdleIssue ==
  /\ keys = InitialRows
  /\ now = 1
  /\ nextId = 1
  /\ kafka = FALSE
  /\ req = NoRequest
  /\ resp = NoResponse
  /\ events = <<>>
  /\ handled = 0
  /\ answered = 0
  /\ inflight = <<>>

Init ==
  /\ keys = InitialRows
  /\ now = 1
  /\ nextId = 1
  /\ kafka \in BOOLEAN
  /\ req = NoRequest
  /\ resp = NoResponse
  /\ events = <<>>
  /\ handled = 0
  /\ answered = 0
  /\ inflight = <<>>
  /\ IdleConv
  /\ IdleCallers

\* The sequence without its i-th element.
Remove(seq, i) == SubSeq(seq, 1, i - 1) \o SubSeq(seq, i + 1, Len(seq))

\* A run ends: its request and outcome become the last ones answered.
Answer(r, outcome) ==
  /\ req' = r
  /\ resp' = outcome
  /\ answered' = answered + 1

\* A request arrives and its run of Server.createKey goes up to the call of
\* GetKeyByHash, or ends before it.
CreateKeyStart ==
  /\ handled < MaxRequests
  /\ \E r \in Requests(resp.key) :
       LET out == createKeyStart(r, now) IN
       /\ handled' = handled + 1
       /\ IF out.done
            THEN Answer(r, out.resp) /\ inflight' = inflight
            ELSE /\ inflight' = Append(inflight, out.task)
                 /\ UNCHANGED <<req, resp, answered>>
       /\ UNCHANGED <<keys, now, nextId, kafka, events, convVars, quotaVars>>

\* GetKeyByHash returns to a run, which goes on to the call of GetApi or
\* ends.
CreateKeyAuthenticate ==
  \E i \in DOMAIN inflight : \E fails \in BOOLEAN :
    /\ inflight[i].pc = "GetKeyByHash"
    /\ LET out == createKeyAuthenticate(inflight[i], keys, fails) IN
       IF out.done
         THEN Answer(inflight[i].req, out.resp) /\ inflight' = Remove(inflight, i)
         ELSE /\ inflight' = [inflight EXCEPT ![i] = out.task]
              /\ UNCHANGED <<req, resp, answered>>
    /\ UNCHANGED <<keys, now, nextId, kafka, events, handled, convVars, quotaVars>>

\* GetApi returns to a run, which goes on to the call of CreateKey, with the
\* entity assembled, or ends.
CreateKeyAuthorize ==
  \E i \in DOMAIN inflight :
    /\ inflight[i].pc = "GetApi"
    /\ \E env \in Environments(inflight[i]) :
         LET out == createKeyAuthorize(inflight[i], now, uidKey(nextId), env) IN
         IF out.done
           THEN /\ Answer(inflight[i].req, out.resp)
                /\ inflight' = Remove(inflight, i)
                /\ nextId' = nextId
           ELSE /\ inflight' = [inflight EXCEPT ![i] = out.task]
                /\ nextId' = nextId + 1
                /\ UNCHANGED <<req, resp, answered>>
    /\ UNCHANGED <<keys, now, kafka, events, handled, convVars, quotaVars>>

\* CreateKey returns to a run, which ends: on success the row is stored, the
\* event goroutine is started (not run) when a bus is configured, and the
\* response carries the plaintext.
CreateKeyPersist ==
  \E i \in DOMAIN inflight : \E fails \in BOOLEAN :
    /\ inflight[i].pc = "CreateKey"
    /\ LET out == createKeyPersist(inflight[i], keys, kafka, fails) IN
       /\ keys' = out.rows
       /\ Answer(inflight[i].req, out.resp)
       /\ inflight' = Remove(inflight, i)
       /\ events' = IF out.spawn
                      THEN Append(events, [keyId |-> out.resp.keyId,
                                           hash |-> Sha256(out.resp.key),
                                           kind |-> "key.created",
                                           state |-> "started", attempts |-> 0])
                      ELSE events
    /\ UNCHANGED <<now, nextId, kafka, handled, convVars, quotaVars>>

\* A goroutine that calls kafka.ProduceKeyEvent again after a failure.
ProduceKeyEventRetrying ==
  \E i \in 1..Len(events) : \E ok \in BOOLEAN :
    /\ events[i].state = "started"
    /\ events[i].attempts < 2
    /\ events' = [events EXCEPT ![i].state = IF ok THEN "published" ELSE "started",
                                ![i].attempts = @ + 1]
    /\ UNCHANGED <<keys, now, nextId, kafka, req, resp, handled, answered, inflight,
                   convVars, quotaVars>>

\* The goroutine: one call of kafka.ProduceKeyEvent, whose error is logged.
ProduceKeyEvent ==
  \E i \in 1..Len(events) : \E ok \in BOOLEAN :
    /\ events[i].state = "started"
    /\ events' = [events EXCEPT ![i].state = IF ok THEN "published" ELSE "logged",
                                ![i].attempts = @ + 1]
    /\ UNCHANGED <<keys, now, nextId, kafka, req, resp, handled, answered, inflight,
                   convVars, quotaVars>>

\* A run of the handler can still read the store or the clock.
Observed == handled < MaxRequests \/ inflight # <<>>

\* The entities another client of the store writes with UpdateKey: a root
\* key with its scope moved to another workspace.
Rescoped(rows) ==
  LET root == GetKeyById(rows, "key_root1") IN
  IF root.err # "" THEN {}
  ELSE {[root.key EXCEPT !.ForWorkspaceId = w] : w \in {"ws_1", "ws_2"}}

\* The ids another client of the store deletes: a root key is revoked.
Revoked == {"key_root1"}

\* Another client of the store rewrites a key; the store is followed as
\* long as a run can still read it.
UpdateKeyCall ==
  /\ Observed
  /\ \E key \in Rescoped(keys) :
       LET res == UpdateKey(keys, key, FALSE) IN
       /\ res.err = ""
       /\ res.rows # keys
       /\ keys' = res.rows
  /\ UNCHANGED <<now, nextId, kafka, req, resp, events, handled, answered,
                 inflight, convVars, quotaVars>>

\* Another client of the store deletes a key.
DeleteKeyCall ==
  /\ Observed
  /\ \E keyId \in Revoked :
       LET res == DeleteKey(keys, keyId, FALSE) IN
       /\ res.err = ""
       /\ keys' = res.rows
  /\ UNCHANGED <<now, nextId, kafka, req, resp, events, handled, answered,
                 inflight, convVars, quotaVars>>

\* Time passes; the clock is followed as long as a run can still read it,
\* which a run does on its arrival and after GetApi.
Tick ==
  /\ now < MaxTime
  /\ \/ handled < MaxRequests
     \/ \E i \in DOMAIN inflight : inflight[i].pc \in {"GetKeyByHash", "GetApi"}
  /\ now' = now + 1
  /\ UNCHANGED <<keys, nextId, kafka, req, resp, events, handled, answered, inflight,
                 convVars, quotaVars>>

Next ==
  \/ CreateKeyStart
  \/ CreateKeyAuthenticate
  \/ CreateKeyAuthorize
  \/ CreateKeyPersist
  \/ UpdateKeyCall
  \/ DeleteKeyCall
  \/ ProduceKeyEvent
  \/ Tick

Spec == Init /\ [][Next]_vars

(***************************************************************************)
(* Translator round trip: an entity is encoded, then decoded               *)
(***************************************************************************)
Ratelimits ==
  { NoRatelimit,
    [present |-> TRUE, Type |-> "fast", Limit |-> 10, RefillRate |-> 1, RefillInterval |-> 100],
    [present |-> TRUE, Type |-> "fast", Limit |-> 0, RefillRate |-> 0, RefillInterval |-> 100],
    [present |-> TRUE, Type |-> "", Limit |-> 10, RefillRate |-> 1, RefillInterval |-> 100] }

Remainings ==
  { [Enabled |-> e, Remaining |-> n] : e \in BOOLEAN, n \in {0, 2} }

Metas ==
  { NilMeta, MapMeta({}),
    MapMeta({<<"a", StrMeta("x")>>, <<"m", MapMeta({})>>,
             <<"n", MapMeta({<<"b", StrMeta("")>>})>>}) }

\* Key entities over every combination of present and absent optional fields.
KeyEntities ==
  { [Id |-> "key_1", KeyAuthId |-> ka, WorkspaceId |-> "ws_1",
     Hash |-> Sha256(UserPlain), Start |-> SubSeq(UserPlain, 1, 2),
     CreatedAt |-> 1, OwnerId |-> o, Name |-> n, Expires |-> x,
     ForWorkspaceId |-> f, Meta |-> m, Ratelimit |-> rl, Remaining |-> rem] :
      ka \in {"", "ka_1"}, o \in {"", "o"}, n \in {"", "n"}, x \in {0, MaxTime},
      f \in {"", "ws_1"}, m \in Metas, rl \in Ratelimits, rem \in Remainings }

InitConv ==
  /\ IdleIssue
  /\ IdleCallers
  /\ cvEntity \in KeyEntities
  /\ cvModel = keyEntityToModel(ZeroKey)
  /\ cvDecoded = [err |-> FALSE, key |-> ZeroKey]
  /\ cvPc = "encode"

Encode ==
  /\ cvPc = "encode"
  /\ cvModel' = keyEntityToModel(cvEntity)
  /\ cvPc' = "decode"
  /\ UNCHANGED <<issueVars, quotaVars, cvEntity, cvDecoded>>

Decode ==
  /\ cvPc = "decode"
  /\ cvDecoded' = keyModelToEntity(cvModel)
  /\ cvPc' = "done"
  /\ UNCHANGED <<issueVars, quotaVars, cvEntity, cvModel>>

NextConv == Encode \/ Decode

SpecConv == InitConv /\ [][NextConv]_vars

(***************************************************************************)
(* Quota: concurrent DecrementRemainingKeyUsage calls on one key           *)
(***************************************************************************)
\* An update that decrements without looking at the count.
DecrementUnconditionally(rows, keyId, fails) ==
  IF fails
    THEN [err |-> "internal", unlimited |-> FALSE, value |-> 0, rows |-> rows]
  ELSE IF ~\E r \in rows : r.ID = keyId
    THEN [err |-> "notfound", unlimited |-> FALSE, value |-> 0, rows |-> rows]
  ELSE LET row == CHOOSE r \in rows : r.ID = keyId IN
    [err |-> "", unlimited |-> FALSE, value |-> row.RemainingRequests.Int64 - 1,
     rows |-> (rows \ {row}) \cup {[row EXCEPT !.RemainingRequests.Int64 = @ - 1]}]

\* The operation as one conditional update of the row: it decrements a
\* positive count and returns the new count; a key without quota is left
\* alone and reported unlimited; an exhausted or unknown key is an error,
\* and so is a failure of the store, which leaves the row as it is.
DecrementRemainingKeyUsage(rows, keyId, fails) ==
  IF fails
    THEN [err |-> "internal", unlimited |-> FALSE, value |-> 0, rows |-> rows]
  ELSE IF ~\E r \in rows : r.ID = keyId
    THEN [err |-> "notfound", unlimited |-> FALSE, value |-> 0, rows |-> rows]
  ELSE LET row == CHOOSE r \in rows : r.ID = keyId IN
    IF ~row.RemainingRequests.Valid
      THEN [err |-> "", unlimited |-> TRUE, value |-> 0, rows |-> rows]
    ELSE IF row.RemainingRequests.Int64 > 0
      THEN [err |-> "", unlimited |-> FALSE,
            value |-> row.RemainingRequests.Int64 - 1,
            rows |-> (rows \ {row}) \cup
                     {[row EXCEPT !.RemainingRequests.Int64 = @ - 1]}]
      ELSE [err |-> "exhausted", unlimited |-> FALSE, value |-> 0, rows |-> rows]

\* The key the callers consume, with r uses left.
QuotaKey(r) ==
  [ZeroKey EXCEPT !.Id = "key_q", !.KeyAuthId = "ka_1", !.WorkspaceId = "ws_1",
     !.Hash = Sha256(UserPlain), !.Start = SubSeq(UserPlain, 1, 2),
     !.Remaining = [Enabled |-> TRUE, Remaining |-> r]]

Calling == [state |-> "calling", err |-> "", unlimited |-> FALSE, value |-> 0]

\* R < N: the key starts with fewer uses than there are callers.
InitQuota ==
  /\ quota \in 0..(NumCallers - 1)
  /\ keys = {dbRow(keyEntityToModel(QuotaKey(quota)))}
  /\ callers = [c \in 1..NumCallers |-> Calling]
  /\ now = 1 /\ nextId = 1 /\ kafka = FALSE /\ req = NoRequest
  /\ resp = NoResponse /\ events = <<>> /\ handled = 0
  /\ answered = 0 /\ inflight = <<>>
  /\ IdleConv

\* One caller's call takes effect, or fails in the store, and returns.
Decrement ==
  \E c \in DOMAIN callers : \E fails \in BOOLEAN :
    /\ callers[c].state = "calling"
    /\ LET res == DecrementRemainingKeyUsage(keys, "key_q", fails) IN
       /\ keys' = res.rows
       /\ callers' = [callers EXCEPT ![c] =
            [state |-> "returned", err |-> res.err, unlimited |-> res.unlimited,
             value |-> res.value]]
    /\ UNCHANGED <<now, nextId, kafka, req, resp, events, handled, answered, inflight,
                   convVars, quota>>

NextQuota == Decrement

SpecQuota == InitQuota /\ [][NextQuota]_vars

(***************************************************************************)
(* Properties                                                              *)
(***************************************************************************)
\* A step in which the run of one issuance request ends.
Handled == answered' = answered + 1

\* The key a request's credential resolves to in the given rows.
Credential(r, rows) == GetKeyByHash(rows, Sha256(r.auth), FALSE)

\* The Api a request targets.
TargetApi(r) == GetApi(r.apiId, FALSE)

\* The rows written by the issuance handler.
CreatedRows == {row \in keys : row.ID \notin {k.Id : k \in InitialKeys}}

\* A step of a run of the issuance handler.
IssuanceStep == <<handled, answered, inflight>>' # <<handled, answered, inflight>>

\* The request is well formed, names an Api and its expiry, if any, lies
\* strictly in the future.
WellFormed(r, t) == r.parses /\ r.apiId # "" /\ (r.expires = 0 \/ r.expires > t)

\* C1: a valid request whose credential GetKeyByHash resolved to a root
\* key for workspace F, on a key-auth Api of F, is never answered with a
\* caller error, and when its CreateKey call succeeds the answer is 200 with
\* key and keyId, exactly one row is added, and the digest of the returned
\* plaintext resolves to the new key, which has workspaceId F, not the root
\* key's own workspace, and the Api's keyAuthId; whatever happens to the
\* root key's row while the run waits.
C1_IssuanceSucceeds ==
  [][ \A F \in {"ws_1", "ws_2"} :
        ( /\ Handled
          /\ WellFormed(req', resp'.at)
          /\ req'.auth # <<>>
          /\ resp'.authKey.ForWorkspaceId = F
          /\ TargetApi(req').err = ""
          /\ TargetApi(req').api.WorkspaceId = F
          /\ TargetApi(req').api.AuthType = "key"
          /\ TargetApi(req').api.KeyAuthId # "" )
        => /\ resp'.status \notin {400, 401}
           /\ ("CreateKey" \in {resp'.calls[i] : i \in DOMAIN resp'.calls}
                 /\ resp'.step # 9)
              => /\ resp'.status = 200
                 /\ resp'.key # <<>>
                 /\ resp'.keyId # ""
                 /\ keys \subseteq keys'
                 /\ Cardinality(keys' \ keys) = 1
                 /\ \A row \in keys' \ keys : row.ID = resp'.keyId
                 /\ LET found == GetKeyByHash(keys', Sha256(resp'.key), FALSE) IN
                    /\ found.err = ""
                    /\ found.key.Id = resp'.keyId
                    /\ found.key.WorkspaceId = F
                    /\ found.key.WorkspaceId # resp'.authKey.WorkspaceId
                    /\ found.key.KeyAuthId = TargetApi(req').api.KeyAuthId ]_vars

\* Witness of C1: the root key of ws_0 for ws_1 has issued a key on api_1,
\* stored in ws_1 under ka_1.
C1_Witness ==
  /\ resp.status = 200
  /\ req.auth = RootPlain
  /\ req.apiId = "api_1"
  /\ \E row \in CreatedRows :
       /\ row.ID = resp.keyId
       /\ row.Hash = Sha256(resp.key)
       /\ row.WorkspaceID = "ws_1"
       /\ row.KeyAuthID = NullString("ka_1", TRUE)
       /\ row.CreatedAt > resp.at

\* C2: a request whose credential resolves to a key without forWorkspaceId
\* leaves the rows unchanged and makes no CreateKey call, whatever its other
\* fields; unless the key lookup itself fails, it is rejected with a caller
\* error no later than the root-key check.
C2_NonRootRejected ==
  [][ ( /\ Handled
        /\ req'.auth # <<>>
        /\ Credential(req', keys).err = ""
        /\ Credential(req', keys).key.ForWorkspaceId = "" )
      => /\ keys' = keys
         /\ "CreateKey" \notin {resp'.calls[i] : i \in DOMAIN resp'.calls}
         /\ resp'.failed # "GetKeyByHash"
            => /\ \/ resp'.status = 400 /\ resp'.code = BAD_REQUEST
                  \/ resp'.status = 401 /\ resp'.code = UNAUTHORIZED
               /\ resp'.step \in 1..3 ]_vars

\* Witness of C2: an ordinary key asked for a key on a valid Api, with
\* forWorkspaceId in the body, and was refused at the root-key check.
C2_Witness ==
  /\ answered > 0
  /\ req.auth = UserPlain
  /\ req.apiId = "api_1"
  /\ req.forWorkspaceId = "ws_2"
  /\ resp.status = 400
  /\ resp.step = 3
  /\ keys = InitialRows

\* The workspace a key-auth namespace belongs to.
KeyAuthWorkspace(id) ==
  IF \E ka \in KeyAuths : ka.Id = id
    THEN (CHOOSE ka \in KeyAuths : ka.Id = id).WorkspaceId
    ELSE ""

\* C3: a well-formed request authenticated as a root key for F on an
\* existing Api of another workspace is answered 401 UNAUTHORIZED (storage
\* errors aside) and leaves the rows unchanged; and any row a request adds
\* has workspaceId F and a keyAuthId of workspace F, F being the
\* forWorkspaceId of the root key as GetKeyByHash gave it to the run.
C3_WorkspaceScope ==
  [][ Handled =>
        LET F == resp'.authKey.ForWorkspaceId
            api == TargetApi(req')
        IN /\ ( /\ WellFormed(req', resp'.at)
                /\ req'.auth # <<>>
                /\ F # ""
                /\ api.err = ""
                /\ api.api.WorkspaceId # F
                /\ resp'.failed = "none" )
              => /\ resp'.status = 401
                 /\ resp'.code = UNAUTHORIZED
                 /\ keys' = keys
           /\ \A row \in keys' \ keys :
                /\ F # ""
                /\ row.WorkspaceID = F
                /\ row.KeyAuthID.Valid
                /\ KeyAuthWorkspace(row.KeyAuthID.String) = F
    ]_vars

\* Witness of C3: the root key for ws_1 asked for a key on api_2 of ws_2 and
\* got 401, nothing stored.
C3_Witness ==
  /\ answered > 0
  /\ req.auth = RootPlain
  /\ req.apiId = "api_2"
  /\ resp.status = 401
  /\ resp.code = UNAUTHORIZED
  /\ resp.step = 5
  /\ keys = InitialRows

\* C4 as stated: a request whose expires is set and not after the clock
\* value read by the handler, equality included, is answered 400
\* BAD_REQUEST before any storage gateway call.
C4_ExpiresNotInFutureRejected ==
  (answered > 0 /\ req.expires > 0 /\ req.expires <= resp.at)
    => /\ resp.status = 400
       /\ resp.code = BAD_REQUEST
       /\ resp.calls = <<>>

\* C5 as stated: decoding the encoding of a key entity gives no error and
\* the entity itself.
C5_RoundTrip ==
  cvPc = "done" => cvDecoded = [err |-> FALSE, key |-> cvEntity]

\* The callers whose call has returned, those whose call decremented, and
\* those whose call failed in the store.
Returned == {c \in DOMAIN callers : callers[c].state = "returned"}
Decremented == {c \in Returned : callers[c].err = ""}
Failed == {c \in Returned : callers[c].err = "internal"}

\* The count stored for the key the callers consume.
StoredRemaining == (CHOOSE r \in keys : r.ID = "key_q").RemainingRequests.Int64

\* The smaller of two numbers.
Min(a, b) == IF a <= b THEN a ELSE b

\* C6 as stated: with R uses left and more than R concurrent callers, the
\* stored count and every returned value are never negative, the callers
\* that decremented saw pairwise distinct values, and once all have
\* returned exactly R decremented.
C6_ExactlyQuotaDecrements ==
  /\ StoredRemaining >= 0
  /\ \A c \in Returned : callers[c].value >= 0
  /\ \A c, d \in Decremented : c # d => callers[c].value # callers[d].value
  /\ Returned = DOMAIN callers => Cardinality(Decremented) = quota

\* C6 amended: the stored count and every returned value are never
\* negative, the callers that decremented saw pairwise distinct values, the
\* decrements so far and the stored count add up to R, so at most R calls
\* decrement; and once all N have returned, the calls that decremented are
\* R or, if fewer than R calls did not fail in the store, all of those.
C6_QuotaNeverNegative ==
  /\ StoredRemaining >= 0
  /\ \A c \in Returned : callers[c].value >= 0
  /\ \A c, d \in Decremented : c # d => callers[c].value # callers[d].value
  /\ Cardinality(Decremented) + StoredRemaining = quota
  /\ Cardinality(Decremented) <= quota
  /\ Returned = DOMAIN callers =>
       Cardinality(Decremented) =
         Min(quota, Cardinality(DOMAIN callers) - Cardinality(Failed))

\* Witness of C6: all callers have returned; so many calls failed in the
\* store that fewer than R decremented and uses are left.
C6_Witness ==
  /\ Returned = DOMAIN callers
  /\ Failed # {}
  /\ Decremented # {}
  /\ Cardinality(Decremented) < quota
  /\ StoredRemaining > 0

\* C7 as stated: the start stored for an issued key has length
\* len(prefix) + 5, is a proper prefix of the plaintext, and no stored field
\* holds the plaintext.
C7_StartIsProperPrefix ==
  \A row \in CreatedRows :
    (resp.status = 200 /\ row.ID = resp.keyId)
      => /\ Len(row.Start) = Len(req.prefix) + 5
         /\ Len(row.Start) < Len(resp.key)
         /\ row.Start = SubSeq(resp.key, 1, Len(row.Start))
         /\ row.Start # resp.key
         /\ row.Hash # resp.key

\* C8: an event exists only with a bus configured and for a key whose row
\* is stored; there is at most one event per key and each is published at
\* most once; the request that starts an event is answered 200 with that
\* key's id; and a step of the event goroutine changes neither the rows nor
\* the response.
C8_EventDetached ==
  /\ [](\A i \in DOMAIN events :
          /\ kafka
          /\ events[i].attempts <= 1
          /\ events[i].state = "started" <=> events[i].attempts = 0
          /\ \E row \in keys : row.ID = events[i].keyId /\ row.Hash = events[i].hash
          /\ \A j \in DOMAIN events : events[j].keyId = events[i].keyId => j = i)
  /\ [][ /\ Len(events') > Len(events)
            => /\ Handled
               /\ Len(events') = Len(events) + 1
               /\ resp'.status = 200
               /\ resp'.key # <<>>
               /\ resp'.keyId = events'[Len(events')].keyId
         /\ (events' # events /\ Len(events') = Len(events))
            => (keys' = keys /\ resp' = resp /\ req' = req)
         /\ Len(events') >= Len(events) ]_vars

\* Witness of C8: the publication for the key of the last response failed
\* and was logged; the response is the 200 it was.
C8_Witness ==
  /\ resp.status = 200
  /\ \E i \in DOMAIN events :
       /\ events[i].keyId = resp.keyId
       /\ events[i].state = "logged"
       /\ events[i].attempts = 1
  /\ \E row \in CreatedRows : row.ID = resp.keyId

\* The response is a caller error with the code of its status.
CallerError ==
  \/ resp.status = 400 /\ resp.code = BAD_REQUEST
  \/ resp.status = 401 /\ resp.code = UNAUTHORIZED

\* C9 as stated: a failure in steps 1 to 6 is answered 400 or 401 with the
\* matching code, and 500 is answered only for a failure of step 9.
C9_OnlyPersistIsServerError ==
  answered > 0 =>
    /\ resp.step \in 1..6 => CallerError
    /\ resp.status = 500 => resp.step = 9

\* The rows of root keys.
RootRows(rows) == {row \in rows : row.ForWorkspaceID.Valid}

\* C10: no row written by the handler carries forWorkspaceId; no step of
\* a run of the handler changes the root keys in the store; and the key of
\* a success response, presented as a credential, resolves to a key without
\* forWorkspaceId and is refused at the root-key check.
C10_IssuedKeysAreNotRoot ==
  /\ [](/\ \A row \in CreatedRows :
             /\ ~row.ForWorkspaceID.Valid
             /\ keyModelToEntity(row).key.ForWorkspaceId = ""
        /\ resp.status = 200 =>
             LET again == [BaseRequest EXCEPT !.auth = resp.key]
                 begun == createKeyStart(again, now)
                 checked == createKeyAuthenticate(begun.task, keys, FALSE)
             IN /\ Credential(again, keys).err = ""
                /\ Credential(again, keys).key.ForWorkspaceId = ""
                /\ ~begun.done
                /\ checked.done
                /\ checked.resp.status = 400
                /\ checked.resp.step = 3)
  /\ [][IssuanceStep => RootRows(keys') = RootRows(keys)]_vars

\* Witness of C10: a request with forWorkspaceId in its body was answered
\* 200 and the row stored for it has no forWorkspaceId; the root key that
\* asked has been deleted since GetKeyByHash gave it to the run.
C10_Witness ==
  /\ resp.status = 200
  /\ resp.authKey.Id = "key_root1"
  /\ RootRows(keys) = {}
  /\ req.forWorkspaceId = "ws_2"
  /\ \E row \in CreatedRows : row.ID = resp.keyId /\ ~row.ForWorkspaceID.Valid

====
